---- MODULE Spec2Model ----
(***************************************************************************)
(* A model of the base85 crate (RFC 1924 variant), src/src/lib.rs:         *)
(* the two public functions encode() and decode() and the two alphabet     *)
(* mappers byte_to_char85() and char85_to_byte().                          *)
(*                                                                         *)
(* Bytes and characters are their integer codes 0..255; a byte slice, a    *)
(* Vec<u8> and a &str are sequences of codes.  u32 arithmetic keeps its    *)
(* width: a result above 2^32-1 panics in a build with overflow checks     *)
(* (the dev profile) and wraps modulo 2^32 otherwise (the release          *)
(* profile); the build is the variable overflow_checks.                    *)
(*                                                                         *)
(* TLC's integers are 32-bit signed, too narrow for a u32 and for the      *)
(* sums that overflow one, so a u32 / usize value n is the record          *)
(* [hi, lo] with n = hi * 2^16 + lo and 0 <= lo < 2^16 (a "wide").         *)
(***************************************************************************)
EXTENDS Integers, Sequences, FiniteSets

VARIABLES overflow_checks, pc, indata, encoded, instr, result

vars == <<overflow_checks, pc, indata, encoded, instr, result>>

---------------------------------------------------------------------------
(* Bounds of the model *)

\* longest byte slice handed to encode()
MaxBytes == 8
\* longest string handed to decode()
MaxText == 6

\* byte values encode() is called with: 0, 'a', 0xFF
ByteSamples == {0, 97, 255}
\* characters decode() is called with: '0', '5', '~', ',' and ' '
TextSamples == {48, 53, 126, 44, 32}
\* what an uninitialized position of the output may hold when it is read
UninitSamples == {0, 255}

RECURSIVE SeqsUpTo(_, _)
SeqsUpTo(S, n) ==
    IF n = 0 THEN {<<>>}
    ELSE LET shorter == SeqsUpTo(S, n - 1)
         IN  shorter \cup {Append(s, x) : s \in {t \in shorter : Len(t) = n - 1}, x \in S}

ByteSeqs == SeqsUpTo(ByteSamples, MaxBytes)
Texts == SeqsUpTo(TextSamples, MaxText)

---------------------------------------------------------------------------
(* u32 / usize / u8 arithmetic on wides *)

Limb == 2^16

Norm(hi, lo) == [hi |-> hi + lo \div Limb, lo |-> lo % Limb]

\* the wide of an integer 0 <= n < 2^31 (`n as u32`, u32::from(n))
Wide(n) == Norm(0, n)

WAdd(a, b) == Norm(a.hi + b.hi, a.lo + b.lo)

\* a - b for a >= b
WSub(a, b) ==
    IF a.lo >= b.lo THEN [hi |-> a.hi - b.hi, lo |-> a.lo - b.lo]
    ELSE [hi |-> a.hi - b.hi - 1, lo |-> a.lo + Limb - b.lo]

\* a * m and a / d (integer division) for 0 < m, d < 2^13
WMul(a, m) == Norm(a.hi * m, a.lo * m)
WDiv(a, d) == [hi |-> a.hi \div d, lo |-> ((a.hi % d) * Limb + a.lo) \div d]

\* a * 85^k, a / 85^k and a % 85^k:
\* 85^1 = 85, 85^2 = 7225, 85^3 = 614125, 85^4 = 52200625
RECURSIVE MulPow85(_, _)
MulPow85(a, k) == IF k = 0 THEN a ELSE MulPow85(WMul(a, 85), k - 1)
RECURSIVE DivPow85(_, _)
DivPow85(a, k) == IF k = 0 THEN a ELSE DivPow85(WDiv(a, 85), k - 1)
ModPow85(a, k) == WSub(a, MulPow85(DivPow85(a, k), k))

\* whether a value fits a u32, and its 32 low bits
FitsU32(a) == a.hi < Limb
WrapU32(a) == [hi |-> a.hi % Limb, lo |-> a.lo]

\* u32::overflowing_shl(n).0 for n < 32
RECURSIVE overflowing_shl(_, _)
overflowing_shl(x, n) ==
    IF n = 0 THEN WrapU32(x)
    ELSE IF n >= 8 THEN overflowing_shl(WrapU32(WMul(x, 256)), n - 8)
    ELSE overflowing_shl(WrapU32(WMul(x, 2)), n - 1)

\* the | operator, bit by bit
RECURSIVE BitOrInt(_, _)
BitOrInt(a, b) ==
    IF a = 0 THEN b
    ELSE IF b = 0 THEN a
    ELSE (IF a % 2 = 1 \/ b % 2 = 1 THEN 1 ELSE 0) + 2 * BitOrInt(a \div 2, b \div 2)

BitOr(a, b) == [hi |-> BitOrInt(a.hi, b.hi), lo |-> BitOrInt(a.lo, b.lo)]

\* `x as u8`
AsU8(x) == x.lo % 256

\* `x >> n` on u32
RECURSIVE Shr(_, _)
Shr(x, n) ==
    IF n = 0 THEN x
    ELSE IF n >= 8 THEN Shr(WDiv(x, 256), n - 8)
    ELSE Shr(WDiv(x, 2), n - 1)

---------------------------------------------------------------------------
(* Result<T> and Error *)

NoError == [kind |-> "none", byte |-> 0]
UnexpectedEof == [kind |-> "UnexpectedEof", byte |-> 0]
InvalidCharacter(c) == [kind |-> "InvalidCharacter", byte |-> c]

Ok(v) == [ok |-> TRUE, v |-> v, e |-> NoError]
Err(e) == [ok |-> FALSE, v |-> 0, e |-> e]

---------------------------------------------------------------------------
(* Alphabet mappers *)

\* b"0123456789ABCDEFGHIJKLMNOPQRSTUVWXYZabcdefghijklmnopqrstuvwxyz!#$%&()*+-;<=>?@^_`{|}~"
B85_TO_CHAR ==
    << 48, 49, 50, 51, 52, 53, 54, 55, 56, 57,
       65, 66, 67, 68, 69, 70, 71, 72, 73, 74, 75, 76, 77,
       78, 79, 80, 81, 82, 83, 84, 85, 86, 87, 88, 89, 90,
       97, 98, 99, 100, 101, 102, 103, 104, 105, 106, 107, 108, 109,
       110, 111, 112, 113, 114, 115, 116, 117, 118, 119, 120, 121, 122,
       33, 35, 36, 37, 38, 40, 41, 42, 43, 45, 59, 60, 61, 62, 63, 64,
       94, 95, 96, 123, 124, 125, 126 >>

\* B85_TO_CHAR[x85 as usize]: an index past the table panics
byte_to_char85(x85) ==
    IF x85 < Len(B85_TO_CHAR) THEN Ok(B85_TO_CHAR[x85 + 1]) ELSE Err(NoError)

char85_to_byte(c) ==
    CASE c \in 48..57  -> Ok(c - 48)
      [] c \in 65..90  -> Ok(c - 65 + 10)
      [] c \in 97..122 -> Ok(c - 97 + 36)
      [] c = 33  -> Ok(62)
      [] c = 35  -> Ok(63)
      [] c = 36  -> Ok(64)
      [] c = 37  -> Ok(65)
      [] c = 38  -> Ok(66)
      [] c = 40  -> Ok(67)
      [] c = 41  -> Ok(68)
      [] c = 42  -> Ok(69)
      [] c = 43  -> Ok(70)
      [] c = 45  -> Ok(71)
      [] c = 59  -> Ok(72)
      [] c = 60  -> Ok(73)
      [] c = 61  -> Ok(74)
      [] c = 62  -> Ok(75)
      [] c = 63  -> Ok(76)
      [] c = 64  -> Ok(77)
      [] c = 94  -> Ok(78)
      [] c = 95  -> Ok(79)
      [] c = 96  -> Ok(80)
      [] c = 123 -> Ok(81)
      [] c = 124 -> Ok(82)
      [] c = 125 -> Ok(83)
      [] c = 126 -> Ok(84)
      [] OTHER   -> Err(InvalidCharacter(c))

---------------------------------------------------------------------------
(* encode() *)

\* a variant of decnum that reads the four bytes least significant first
decnumLittleEndian(data, data_index) ==
    BitOr(BitOr(BitOr(overflowing_shl(Wide(data[data_index + 4]), 24),
                      overflowing_shl(Wide(data[data_index + 3]), 16)),
                overflowing_shl(Wide(data[data_index + 2]), 8)),
          Wide(data[data_index + 1]))

\* the big-endian u32 of the four bytes at data_index (0-based)
decnum(data, data_index) ==
    BitOr(BitOr(BitOr(overflowing_shl(Wide(data[data_index + 1]), 24),
                      overflowing_shl(Wide(data[data_index + 2]), 16)),
                overflowing_shl(Wide(data[data_index + 3]), 8)),
          Wide(data[data_index + 4]))

\* a variant of FirstRemainder that forgets `% 52200625`
FirstRemainderKept(num) == num

\* the remainder after the first base-85 digit has been taken out
FirstRemainder(num) == ModPow85(num, 4)

\* the five arguments of byte_to_char85 for one full group, in push order
GroupDigits(num) ==
    LET r1 == FirstRemainder(num)
        r2 == ModPow85(r1, 3)
        r3 == ModPow85(r2, 2)
    IN  << AsU8(DivPow85(num, 4)), AsU8(DivPow85(r1, 3)), AsU8(DivPow85(r2, 2)),
           AsU8(DivPow85(r3, 1)), AsU8(ModPow85(r3, 1)) >>

\* for _i in 0..chunk_count: the arguments pushed by groups i.., data_index = 4*i
RECURSIVE ChunkDigits(_, _, _, _)
ChunkDigits(data, i, chunk_count, data_index) ==
    IF i >= chunk_count THEN <<>>
    ELSE GroupDigits(decnum(data, data_index))
             \o ChunkDigits(data, i + 1, chunk_count, data_index + 4)

\* for i in length - extra_bytes..length: shift in the leftover bytes
RECURSIVE LastChunkBytes(_, _, _, _)
LastChunkBytes(data, i, length, last_chunk) ==
    IF i >= length THEN last_chunk
    ELSE LastChunkBytes(data, i + 1, length,
                        BitOr(overflowing_shl(last_chunk, 8), Wide(data[i + 1])))

\* while i > 0: pad extra bytes with zeroes
RECURSIVE PadLastChunk(_, _)
PadLastChunk(last_chunk, i) ==
    IF i > 0 THEN PadLastChunk(overflowing_shl(last_chunk, 8), i - 1) ELSE last_chunk

last_chunk(data, length, extra_bytes) ==
    PadLastChunk(LastChunkBytes(data, length - extra_bytes, length, Wide(0)),
                 4 - extra_bytes)

\* a variant of LastDigitCount that pushes one digit per leftover byte
LastDigitCountShort(extra_bytes) ==
    1 + (IF extra_bytes > 1 THEN 1 + (IF extra_bytes > 2 THEN 1 ELSE 0) ELSE 0)

\* how many digits of the trailing group are pushed
LastDigitCount(extra_bytes) ==
    2 + (IF extra_bytes > 1 THEN 1 + (IF extra_bytes > 2 THEN 1 ELSE 0) ELSE 0)

\* the arguments of byte_to_char85 for the trailing group, in push order
LastChunkDigits(data, length, extra_bytes) ==
    IF extra_bytes # 0
    THEN SubSeq(GroupDigits(last_chunk(data, length, extra_bytes)),
                1, LastDigitCount(extra_bytes))
    ELSE <<>>

\* outdata.push(byte_to_char85(x)) for each x in turn; the first lookup that
\* panics ends the call
RECURSIVE PushAll(_, _, _)
PushAll(xs, i, st) ==
    IF i > Len(xs) THEN st
    ELSE LET r == byte_to_char85(xs[i])
             looked == Append(st.lookups, xs[i])
         IN  IF r.ok
             THEN PushAll(xs, i + 1, [st EXCEPT !.text = Append(@, r.v), !.lookups = looked])
             ELSE [kind |-> "panic", text |-> <<>>, lookups |-> looked]

\* String::from_utf8(outdata).unwrap(): bytes below 0x80 are always valid UTF-8
from_utf8_unwrap(st) ==
    IF st.kind = "Ok" /\ \E i \in DOMAIN st.text : st.text[i] >= 128
    THEN [st EXCEPT !.kind = "panic", !.text = <<>>]
    ELSE st

encode(data) ==
    IF Len(data) = 0 THEN [kind |-> "Ok", text |-> <<>>, lookups |-> <<>>]
    ELSE LET length == Len(data)
             chunk_count == length \div 4
             extra_bytes == length % 4
         IN  from_utf8_unwrap(
                 PushAll(ChunkDigits(data, 0, chunk_count, 0)
                             \o LastChunkDigits(data, length, extra_bytes),
                         1, [kind |-> "Ok", text |-> <<>>, lookups |-> <<>>]))

---------------------------------------------------------------------------
(* decode() *)

\* a position of Vec<MaybeUninit<u8>> that was never written
Uninit == -1

\* the exponents of 85 the five terms are multiplied by: 85u32.pow(4),
\* 85u32.pow(3), 85u32.pow(2), 85u32 (pow(1)), and 1 (pow(0))
Pow85 == << 4, 3, 2, 1, 0 >>

\* what a decode() call leaves behind: how it ended (Ok, an Error, or a
\* panic), the buffer, its size, the positions written (0-based, in order,
\* an attempt past the end included) and whether u32 arithmetic overflowed
DecodeEnd(kind, byte, st) ==
    [kind |-> kind, byte |-> byte, out |-> IF kind = "Ok" THEN st.out ELSE <<>>,
     capacity |-> Len(st.out), writes |-> st.writes, overflow |-> st.overflow]

\* the accumulator expression, evaluated left to right: term i is looked up
\* (`?` returns its error), multiplied by its power and added to the sum of
\* the terms before it.  A product or a sum above u32::MAX panics under
\* overflow checks and wraps otherwise.
RECURSIVE Accumulate(_, _, _, _, _)
Accumulate(digits, i, acc, ovf, checks) ==
    IF i > Len(digits) THEN [kind |-> "Ok", acc |-> acc, e |-> NoError, overflow |-> ovf]
    ELSE LET r == digits[i]
             prod == MulPow85(Wide(r.v), Pow85[i])
             sum == WAdd(acc, WrapU32(prod))
             over == ~FitsU32(prod) \/ ~FitsU32(sum)
         IN  IF ~r.ok THEN [kind |-> "Err", acc |-> acc, e |-> r.e, overflow |-> ovf]
             ELSE IF over /\ checks
             THEN [kind |-> "panic", acc |-> acc, e |-> NoError, overflow |-> TRUE]
             ELSE Accumulate(digits, i + 1, WrapU32(sum), ovf \/ over, checks)

\* out_chunk[k] = MaybeUninit::new(v), k < 4, for the out_chunk at `base`
WriteChunk(st, base, k, v) ==
    [st EXCEPT !.out[base + k + 1] = v, !.writes = Append(@, base + k)]

\* the digit of position j (1..5) of a full group
ChunkDigit(chunk, j) == char85_to_byte(chunk[j])

\* a variant of RemainderDigit that takes a missing position as the digit 0
RemainderDigitZeroPad(remainder, j) ==
    IF j <= Len(remainder) THEN char85_to_byte(remainder[j])
    ELSE IF j = 2 THEN Err(UnexpectedEof)
    ELSE Ok(0)

\* a variant of RemainderDigit that pads a missing b like c, d and e
RemainderDigitNoEof(remainder, j) ==
    IF j <= Len(remainder) THEN char85_to_byte(remainder[j])
    ELSE Ok(126)

\* the digit of position j (1..5) of the trailing group: a, b, c, d, e
RemainderDigit(remainder, j) ==
    IF j <= Len(remainder) THEN char85_to_byte(remainder[j])
    ELSE IF j = 2 THEN Err(UnexpectedEof)
    ELSE Ok(126)

\* capacity of the output for an input of `len` bytes whose remainder is `rem`
capacity(len, rem) ==
    IF rem = <<>> THEN (len \div 5) * 4 ELSE (len \div 5) * 4 + Len(rem) - 1

\* for (chunk, out_chunk) in zip(chunks, &mut out_chunks): groups i..nzip
RECURSIVE DecodeChunks(_, _, _, _, _)
DecodeChunks(data, i, nzip, st, checks) ==
    IF i > nzip THEN [done |-> FALSE, st |-> st]
    ELSE LET chunk == SubSeq(data, 5 * (i - 1) + 1, 5 * i)
             a == Accumulate([j \in 1..5 |-> ChunkDigit(chunk, j)], 1, Wide(0), st.overflow, checks)
             base == 4 * (i - 1)
             st1 == [st EXCEPT !.overflow = a.overflow]
             w0 == WriteChunk(st1, base, 0, AsU8(Shr(a.acc, 24)))
             w1 == WriteChunk(w0, base, 1, AsU8(Shr(a.acc, 16)))
             w2 == WriteChunk(w1, base, 2, AsU8(Shr(a.acc, 8)))
             w3 == WriteChunk(w2, base, 3, AsU8(a.acc))
         IN  CASE a.kind = "Err"   -> [done |-> TRUE, end |-> DecodeEnd(a.e.kind, a.e.byte, st1)]
               [] a.kind = "panic" -> [done |-> TRUE, end |-> DecodeEnd("panic", 0, st1)]
               [] OTHER            -> DecodeChunks(data, i + 1, nzip, w3, checks)

\* out_remainder[k] = MaybeUninit::new(v) for k = 0 and while
\* remainder.len() > k + 1; an index past out_remainder panics
RECURSIVE WriteRemainder(_, _, _, _, _, _)
WriteRemainder(st, base, rlen, remlen, acc, k) ==
    IF k > 0 /\ ~(remlen > k + 1) THEN DecodeEnd("Ok", 0, st)
    ELSE IF k >= 4 THEN DecodeEnd("Ok", 0, st)
    ELSE IF k >= rlen
    THEN DecodeEnd("panic", 0, [st EXCEPT !.writes = Append(@, base + k)])
    ELSE WriteRemainder(
             [st EXCEPT !.out[base + k + 1] = AsU8(Shr(acc, 8 * (3 - k))),
                        !.writes = Append(@, base + k)],
             base, rlen, remlen, acc, k + 1)

\* if let Some(a) = remainder.first(): the trailing group
DecodeRemainder(remainder, st, checks) ==
    LET a == Accumulate([j \in 1..5 |-> RemainderDigit(remainder, j)], 1, Wide(0),
                        st.overflow, checks)
        st1 == [st EXCEPT !.overflow = a.overflow]
        \* out_chunks.into_remainder(): what chunks_exact_mut(4) leaves over
        base == (Len(st.out) \div 4) * 4
        rlen == Len(st.out) % 4
    IN  CASE a.kind = "Err"   -> DecodeEnd(a.e.kind, a.e.byte, st1)
          [] a.kind = "panic" -> DecodeEnd("panic", 0, st1)
          [] OTHER            -> WriteRemainder(st1, base, rlen, Len(remainder), a.acc, 0)

decode(data, checks) ==
    LET len == Len(data)
        remainder == SubSeq(data, (len \div 5) * 5 + 1, len)
        cap == capacity(len, remainder)
        st0 == [out |-> [i \in 1..cap |-> Uninit], writes |-> <<>>, overflow |-> FALSE]
        \* zip ends with the shorter of chunks and out_chunks
        nchunks == len \div 5
        nout == cap \div 4
        nzip == IF nchunks < nout THEN nchunks ELSE nout
        loop == DecodeChunks(data, 1, nzip, st0, checks)
    IN  IF loop.done THEN loop.end
        ELSE IF remainder # <<>> THEN DecodeRemainder(remainder, loop.st, checks)
        ELSE DecodeEnd("Ok", 0, loop.st)

\* transmute::<_, Vec<u8>>(out): a position never written reads as any byte
Transmute(end, junk) ==
    [end EXCEPT !.out = [i \in DOMAIN end.out |->
                             IF end.out[i] = Uninit THEN junk ELSE end.out[i]]]

---------------------------------------------------------------------------
(* The calls *)

NoEncode == [kind |-> "none", text |-> <<>>, lookups |-> <<>>]
NoDecode == [kind |-> "none", byte |-> 0, out |-> <<>>, capacity |-> 0,
             writes |-> <<>>, overflow |-> FALSE]

Init ==
    /\ overflow_checks \in BOOLEAN
    /\ pc = "idle"
    /\ indata = <<>>
    /\ encoded = NoEncode
    /\ instr = <<>>
    /\ result = NoDecode

\* encode(indata)
CallEncode ==
    /\ pc = "idle"
    /\ \E b \in ByteSeqs :
          /\ indata' = b
          /\ encoded' = encode(b)
    /\ pc' = "encoded"
    /\ UNCHANGED <<overflow_checks, instr, result>>

\* decode(&encode(indata)): the string encode() returned, handed to decode()
CallDecodeEncoded ==
    /\ pc = "encoded"
    /\ encoded.kind = "Ok"
    /\ instr' = encoded.text
    /\ LET end == decode(encoded.text, overflow_checks)
       IN  \E junk \in UninitSamples : result' = Transmute(end, junk)
    /\ pc' = "roundtrip"
    /\ UNCHANGED <<overflow_checks, indata, encoded>>

\* decode(instr) on any string
CallDecode ==
    /\ pc = "idle"
    /\ \E t \in Texts :
          /\ instr' = t
          /\ LET end == decode(t, overflow_checks)
             IN  \E junk \in UninitSamples : result' = Transmute(end, junk)
    /\ pc' = "decoded"
    /\ UNCHANGED <<overflow_checks, indata, encoded>>

Next == CallEncode \/ CallDecodeEncoded \/ CallDecode

Spec == Init /\ [][Next]_vars

---------------------------------------------------------------------------
(* Vocabulary of the claims *)

\* ASCII space, tab, line feed, carriage return
Whitespace == {32, 9, 10, 13}

\* a text with its whitespace removed
Strip(t) == SelectSeq(t, LAMBDA c : c \notin Whitespace)

\* one of the 85 symbols the decoder accepts
IsSymbol(c) == char85_to_byte(c).ok
AllSymbols(t) == \A i \in DOMAIN t : IsSymbol(t[i])

\* the position (1-based) of the leftmost byte of t outside the alphabet
FirstInvalid(t) ==
    CHOOSE i \in DOMAIN t : ~IsSymbol(t[i]) /\ \A j \in 1..(i - 1) : IsSymbol(t[j])

\* the unsigned 32-bit value of four bytes, most significant first
BigEndian(b0, b1, b2, b3) == Norm(b0 * 256 + b1, b2 * 256 + b3)

\* byte i (0 = most significant) of a 32-bit value
ByteOf(v, i) ==
    CASE i = 0 -> v.hi \div 256
      [] i = 1 -> v.hi % 256
      [] i = 2 -> v.lo \div 256
      [] OTHER -> v.lo % 256

\* d0*85^4 + d1*85^3 + d2*85^2 + d3*85 + d4 as a mathematical integer
Radix85(d) ==
    WAdd(WAdd(WAdd(WAdd(MulPow85(Wide(d[1]), 4), MulPow85(Wide(d[2]), 3)),
                   MulPow85(Wide(d[3]), 2)), MulPow85(Wide(d[4]), 1)), Wide(d[5]))

\* base-85 digit i (1 = most significant of five) of a value
Digit85(v, i) == ModPow85(DivPow85(v, 5 - i), 1).lo

\* the bytes of group g (1-based) of b, right-padded with zero bytes
GroupByte(b, g, k) == IF 4 * (g - 1) + k <= Len(b) THEN b[4 * (g - 1) + k] ELSE 0
GroupValue(b, g) ==
    BigEndian(GroupByte(b, g, 1), GroupByte(b, g, 2), GroupByte(b, g, 3), GroupByte(b, g, 4))

\* f(0) = 0, f(1) = 2, f(2) = 3, f(3) = 4
TailLength(r) == CASE r = 0 -> 0 [] r = 1 -> 2 [] r = 2 -> 3 [] OTHER -> 4

EncodedLength(n) == (n \div 4) * 5 + TailLength(n % 4)

Max(a, b) == IF a >= b THEN a ELSE b

---------------------------------------------------------------------------
(* C1 *)

\* C1: round trip.  For every byte sequence b, decode(encode(b)) succeeds
\* and returns exactly b.
C1_RoundTrip ==
    pc = "roundtrip" => result.kind = "Ok" /\ result.out = indata

\* a full group of value 2^32-1 followed by a one-byte trailing group
C1_Witness ==
    /\ pc = "roundtrip"
    /\ Len(indata) = 5
    /\ \A i \in 1..4 : indata[i] = 255
    /\ result.kind = "Ok"
    /\ result.out = indata

---------------------------------------------------------------------------
(* C2 *)

\* C2: whitespace insensitivity.  For every valid encoded text t and every
\* text t' obtained from t by inserting whitespace, decode(t') returns what
\* decode(t) returns.  Here instr is t' and Strip(instr) is t.
C2_WhitespaceInsensitive ==
    LET plain == decode(Strip(instr), overflow_checks)
    IN  (pc = "decoded" /\ AllSymbols(Strip(instr)) /\ plain.kind = "Ok")
            => (result.kind = "Ok" /\ result.out = plain.out)

---------------------------------------------------------------------------
(* C3 *)

\* C3: decode never aborts, and no product or partial sum of the u32
\* accumulator leaves 0..2^32-1.
C3_NoOverflow ==
    pc = "decoded" =>
        /\ result.kind \in {"Ok", "InvalidCharacter", "UnexpectedEof"}
        /\ ~result.overflow

---------------------------------------------------------------------------
(* C4 *)

\* C4: single-leftover failure.  Every decode input whose length after
\* whitespace removal is congruent to 1 modulo 5 fails with UnexpectedEof.
\* Stated for the inputs that hold alphabet symbols and whitespace only, where
\* no InvalidCharacter can be owed to a byte outside the alphabet.
C4_SingleLeftoverEof ==
    (pc = "decoded" /\ Len(Strip(instr)) % 5 = 1 /\ AllSymbols(Strip(instr)))
        => result.kind = "UnexpectedEof"

---------------------------------------------------------------------------
(* C5 *)

\* C5: fail-fast invalid-character detection.  Every whitespace-free input
\* with a byte outside the alphabet fails with InvalidCharacter carrying the
\* leftmost such byte, and returns no bytes.
C5_InvalidCharacterFirst ==
    (pc = "decoded" /\ Strip(instr) = instr /\ ~AllSymbols(instr))
        => /\ result.kind = "InvalidCharacter"
           /\ result.byte = instr[FirstInvalid(instr)]
           /\ result.out = <<>>

---------------------------------------------------------------------------
(* C6 *)

\* C6: length law.  len(encode(b)) = (len(b) div 4)*5 + f(len(b) mod 4) with
\* f(0)=0, f(1)=2, f(2)=3, f(3)=4; the empty sequence encodes to "".
C6_LengthLaw ==
    pc = "encoded" =>
        /\ encoded.kind = "Ok"
        /\ Len(encoded.text) = EncodedLength(Len(indata))
        /\ (indata = <<>> => encoded.text = <<>>)

\* a full group followed by a trailing group of three bytes: 5 + 4 characters
C6_Witness ==
    /\ pc = "encoded"
    /\ Len(indata) = 5
    /\ Len(encoded.text) = 7

---------------------------------------------------------------------------
(* C7 *)

\* C7: alphabet closure and totality of encode.  encode never fails, every
\* value it looks up in the table lies in 0..84, and every character of the
\* result is one of the 85 alphabet symbols.
C7_AlphabetClosure ==
    pc = "encoded" =>
        /\ encoded.kind = "Ok"
        /\ \A i \in DOMAIN encoded.lookups : encoded.lookups[i] \in 0..84
        /\ AllSymbols(encoded.text)

\* the largest leading digit, 82, is looked up for the group 0xFFFFFFFF, and
\* a zero-padded trailing group follows it
C7_Witness ==
    /\ pc = "encoded"
    /\ Len(indata) = 5
    /\ encoded.lookups[1] = 82
    /\ Len(encoded.lookups) = 7
    /\ Len(encoded.text) = 7

---------------------------------------------------------------------------
(* C8 *)

\* the digits the claim gives a group of k present symbols: the missing
\* trailing positions hold 84
ClaimedDigits(group) ==
    [j \in 1..5 |-> IF j <= Len(group) THEN char85_to_byte(group[j]).v ELSE 84]

\* the groups of five of a text, the trailing shorter one included
TextGroup(t, g) == SubSeq(t, 5 * (g - 1) + 1, IF 5 * g <= Len(t) THEN 5 * g ELSE Len(t))

\* C8: partial-group decoding.  For a whitespace-free input of alphabet
\* symbols whose trailing group has k in {2,3,4} symbols, decode forms the
\* 32-bit integer of the k digits followed by 5-k digits 84 and emits its k-1
\* most significant bytes, after the 4 bytes of each full group.  Stated for
\* the inputs whose groups all denote integers that fit 32 bits.
C8_PartialGroupPads84 ==
    LET n == Len(instr)
        k == n % 5
        full == n \div 5
        claimed == Radix85(ClaimedDigits(TextGroup(instr, full + 1)))
    IN  (/\ pc = "decoded"
         /\ Strip(instr) = instr
         /\ AllSymbols(instr)
         /\ k \in {2, 3, 4}
         /\ \A g \in 1..(full + 1) : FitsU32(Radix85(ClaimedDigits(TextGroup(instr, g)))))
            => /\ result.kind = "Ok"
               /\ Len(result.out) = 4 * full + k - 1
               /\ \A i \in 0..(k - 2) : result.out[4 * full + i + 1] = ByteOf(claimed, i)

---------------------------------------------------------------------------
(* C9 *)

\* the symbols of the first `count` base-85 digits of a value
DigitSymbols(v, count) == [i \in 1..count |-> B85_TO_CHAR[Digit85(v, i) + 1]]

RECURSIVE ExpectedText(_, _)
ExpectedText(b, g) ==
    IF 4 * (g - 1) >= Len(b) THEN <<>>
    ELSE DigitSymbols(GroupValue(b, g),
                      IF 4 * g <= Len(b) THEN 5 ELSE Len(b) - 4 * (g - 1) + 1)
             \o ExpectedText(b, g + 1)

\* C9: encoder digit decomposition.  encode(b) is, group by group, the
\* symbols of the base-85 digits (most significant first, summing to the
\* group's big-endian value) of each full group, then the leading n+1 digits
\* of the zero-padded trailing n bytes; with the vectors "a" -> "VE",
\* "aa" -> "VPO", "aaa" -> "VPRn", "aaaa" -> "VPRom", "aaaaa" -> "VPRomVE".
C9_DigitDecomposition ==
    pc = "encoded" =>
        /\ encoded.text = ExpectedText(indata, 1)
        /\ \A g \in 1..(Len(indata) \div 4) :
              LET d == [i \in 1..5 |-> encoded.lookups[5 * (g - 1) + i]]
              IN  (\A i \in 1..5 : d[i] \in 0..84) /\ Radix85(d) = GroupValue(indata, g)
        /\ (indata = <<97>> => encoded.text = <<86, 69>>)
        /\ (indata = <<97, 97>> => encoded.text = <<86, 80, 79>>)
        /\ (indata = <<97, 97, 97>> => encoded.text = <<86, 80, 82, 110>>)
        /\ (indata = <<97, 97, 97, 97>> => encoded.text = <<86, 80, 82, 111, 109>>)
        /\ (indata = <<97, 97, 97, 97, 97>>
                => encoded.text = <<86, 80, 82, 111, 109, 86, 69>>)
        \* and the longest vector of the crate's test, "aaaaaaaa" -> "VPRomVPRom"
        /\ (indata = <<97, 97, 97, 97, 97, 97, 97, 97>>
                => encoded.text = <<86, 80, 82, 111, 109, 86, 80, 82, 111, 109>>)

\* "aaaaa" has been encoded to "VPRomVE"
C9_Witness ==
    /\ pc = "encoded"
    /\ indata = <<97, 97, 97, 97, 97>>
    /\ encoded.text = <<86, 80, 82, 111, 109, 86, 69>>

---------------------------------------------------------------------------
(* C10 *)

\* how often position p (0-based) was written
TimesWritten(p) == Cardinality({k \in DOMAIN result.writes : result.writes[k] = p})

\* C10: decode's output buffer.  Its size is (len div 5)*4 + max(0, r-1) for
\* an input of len bytes, r = len mod 5; no write falls outside it on any
\* path; and when decode succeeds every position was written exactly once.
C10_BufferSafety ==
    pc \in {"decoded", "roundtrip"} =>
        LET len == Len(instr)
            r == len % 5
        IN  /\ result.capacity = (len \div 5) * 4 + Max(0, r - 1)
            /\ \A k \in DOMAIN result.writes : result.writes[k] \in 0..(result.capacity - 1)
            \* a panic is never an index out of bounds
            /\ result.kind = "panic" => result.overflow
            /\ result.kind = "Ok" =>
                  /\ Len(result.out) = result.capacity
                  /\ \A p \in 0..(result.capacity - 1) : TimesWritten(p) = 1

\* r = 1 after one full group: the group's four positions were written, the
\* remainder region is empty and the call ended in UnexpectedEof
C10_Witness ==
    /\ pc = "decoded"
    /\ Len(instr) = 6
    /\ result.kind = "UnexpectedEof"
    /\ result.capacity = 4
    /\ result.writes = <<0, 1, 2, 3>>

====
